---- MODULE Spec2Model ----
(***************************************************************************)
(* Model of WebPanel (src/client/common/application/webPanels/webPanel.ts) *)
(* together with the host objects it drives: the WebviewPanel returned by  *)
(* window.createWebviewPanel, its webview, and the listener of the         *)
(* options.                                                                *)
(*                                                                         *)
(* JavaScript runs one job at a time, so every action below is one job:    *)
(* a synchronous public method, the continuation of an await, or a host    *)
(* event with the handlers registered for it.                              *)
(*                                                                         *)
(* The host API is not part of the file.  What it does when a method of a  *)
(* WebviewPanel is used after the panel was disposed is left open: the     *)
(* call either throws or is tolerated without effect (DisposedOutcomes).   *)
(* The webview posts messages only while it shows the application HTML:    *)
(* an empty page and the error string run no script.                       *)
(* updateCwd has an empty body (a comment) and changes no state; it has no *)
(* action.                                                                 *)
(***************************************************************************)
EXTENDS Integers, Sequences, FiniteSets, TLC

\* ---------------------------------------------------------------- bounds
MaxScripts == 2      \* declared script paths (options.scripts)
MaxSteps   == 3      \* public method calls plus host events (view state, messages)

\* ---------------------------------------------------------------- values
Titles == {"T0", "T1"}
Msgs == {[type |-> "a", payload |-> "x"], [type |-> "b", payload |-> "y"]}
DisposedOutcomes == {"threw", "tolerated"}

BoolStr(b) == IF b THEN "true" ELSE "false"

\* The outcomes of fs.pathExists for the declared scripts, in order.
ScriptLists == UNION {[1..n -> BOOLEAN] : n \in 0..MaxScripts}

VARIABLES
    scripts,         \* options.scripts, each path as the result of fs.pathExists
    startHttpServer, \* options.startHttpServer
    panel,           \* this.panel: "set" or "cleared" (undefined)
    host,            \* the host's WebviewPanel: disposed, visible, active, title, html
    handlers,        \* the three host event handlers of load are registered
    loadState,       \* this.loadPromise: "pending", "resolved", "rejected"
    stats,           \* counters: panels created, loads started, existence checks, html assignments
    selected,        \* the HTML load chose to assign: "none", "local", "server", "error"
    pendingShows,    \* show() calls suspended at `await this.loadPromise`, in order
    listenerLog,     \* calls received by options.listener, in order
    delivered,       \* messages the webview delivered to the host, in order
    given,           \* messages given to postMessage() while the host panel was alive
    inbox,           \* messages the webview received from webview.postMessage
    reveals,         \* calls of panel.reveal
    lastCall,        \* the last public method that ran, its argument and its result
    misuse,          \* a method of the host panel was used after the panel was disposed
    threw,           \* an exception reached a caller of a public method
    steps            \* public method calls and host events so far

vars == <<scripts, startHttpServer, panel, host, handlers, loadState, stats, selected,
          pendingShows, listenerLog, delivered, given, inbox, reveals, lastCall,
          misuse, threw, steps>>

\* ------------------------------------------------------- listener calls
OnChangeViewState(from) == [m |-> "onChangeViewState", from |-> from, type |-> "", payload |-> ""]
OnMessage(type, payload) == [m |-> "onMessage", from |-> "webview", type |-> type, payload |-> payload]
ListenerDispose == [m |-> "dispose", from |-> "host", type |-> "", payload |-> ""]

Call(op, ret, early) == [op |-> op, ret |-> ret, early |-> early]

\* ---------------------------------------------------------- constructor
\* window.createWebviewPanel(...) with preserveFocus: true, then this.load()
\* runs up to its first await.
Init ==
    /\ scripts \in ScriptLists
    /\ startHttpServer \in BOOLEAN
    /\ panel = "set"
    /\ host = [disposed |-> FALSE, visible |-> TRUE, active |-> FALSE,
               title |-> "T0", html |-> "none"]
    /\ handlers = FALSE
    /\ loadState = "pending"
    /\ stats = [panels |-> 1, loads |-> 1, checks |-> 0, assigns |-> 0]
    /\ selected = "none"
    /\ pendingShows = <<>>
    /\ listenerLog = <<>>
    /\ delivered = <<>>
    /\ given = <<>>
    /\ inbox = <<>>
    /\ reveals = 0
    /\ lastCall = Call("constructor", "ok", FALSE)
    /\ misuse = FALSE
    /\ threw = FALSE
    /\ steps = 0

\* ------------------------------------------------------------ host panel
\* panel.dispose() and the host closing the panel: the panel is disposed and
\* onDidDispose fires, running the handler of load (lines 99-102) when it is
\* registered: this.panel = undefined; listener.dispose().
DisposeHost ==
    /\ host' = [host EXCEPT !.disposed = TRUE]
    /\ panel' = IF handlers THEN "cleared" ELSE panel
    /\ listenerLog' = IF handlers THEN Append(listenerLog, ListenerDispose) ELSE listenerLog

\* ------------------------------------------------------------------ load
\* Variant: `some` in place of `every`, so an empty list counts as missing.
AllExistSome(s) == \E i \in DOMAIN s : s[i] = TRUE

\* localFilesExist.every(exists => exists === true)
AllExist(s) == \A i \in DOMAIN s : s[i] = TRUE

\* The HTML load assigns: generateServerReactHtml, generateLocalReactHtml or
\* the formatted badWebPanelFormatString.
ChooseHtml(ok, serve) ==
    IF ok THEN (IF serve THEN "server" ELSE "local") ELSE "error"

\* Variant: the handlers are registered before the branch, on both paths.
RegistersHandlersAlways(ok) == TRUE

\* The three handlers are registered in the branch where every script exists.
RegistersHandlers(ok) == ok

\* "Set initial state": listener.onChangeViewState(this), same branch.
InitialCallbacks(ok) == IF ok THEN <<OnChangeViewState("load")>> ELSE <<>>

\* The continuation of load after `await Promise.all(...)`.  this.panel was
\* tested before the await and is not tested again.
LoadResume ==
    /\ loadState = "pending"
    /\ LET ok == AllExist(scripts) IN
       \E out \in (IF host.disposed THEN DisposedOutcomes ELSE {"live"}) :
          IF out = "threw"
          THEN /\ loadState' = "rejected"
               /\ stats' = [stats EXCEPT !.checks = @ + 1]
               /\ misuse' = TRUE
               /\ UNCHANGED <<host, handlers, selected, listenerLog>>
          ELSE /\ loadState' = "resolved"
               /\ stats' = [stats EXCEPT !.checks = @ + 1, !.assigns = @ + 1]
               /\ selected' = ChooseHtml(ok, startHttpServer)
               /\ host' = IF out = "live"
                          THEN [host EXCEPT !.html = ChooseHtml(ok, startHttpServer)]
                          ELSE host
               /\ handlers' = RegistersHandlers(ok)
               /\ listenerLog' = listenerLog \o InitialCallbacks(ok)
               /\ misuse' = (misuse \/ out # "live")
    /\ UNCHANGED <<scripts, startHttpServer, panel, pendingShows, delivered, given,
                   inbox, reveals, lastCall, threw, steps>>

\* ------------------------------------------------------------------ show
\* Variant: show() starts the load again before awaiting it.
ShowCallReload(pf) ==
    /\ steps < MaxSteps
    /\ steps' = steps + 1
    /\ pendingShows' = Append(pendingShows, [preserveFocus |-> pf, early |-> TRUE])
    /\ lastCall' = Call("show", "awaiting", TRUE)
    /\ loadState' = "pending"
    /\ stats' = [stats EXCEPT !.loads = @ + 1]
    /\ UNCHANGED <<scripts, startHttpServer, panel, host, handlers, selected,
                   listenerLog, delivered, given, inbox, reveals, misuse, threw>>

\* show(preserveFocus) up to `await this.loadPromise`.
ShowCall(pf) ==
    /\ steps < MaxSteps
    /\ steps' = steps + 1
    /\ pendingShows' = Append(pendingShows,
                              [preserveFocus |-> pf, early |-> (loadState = "pending")])
    /\ lastCall' = Call("show", "awaiting", loadState = "pending")
    /\ UNCHANGED <<scripts, startHttpServer, panel, host, handlers, loadState, stats,
                   selected, listenerLog, delivered, given, inbox, reveals, misuse,
                   threw>>

\* Variant: show() without `await this.loadPromise`.
ShowResumeNoAwait ==
    /\ pendingShows # <<>>
    /\ LET s == Head(pendingShows) IN
       /\ pendingShows' = Tail(pendingShows)
       /\ IF panel = "cleared"
          THEN /\ lastCall' = Call("show", "noop", s.early)
               /\ UNCHANGED <<reveals, misuse, threw>>
          ELSE \E out \in (IF host.disposed THEN DisposedOutcomes ELSE {"revealed"}) :
               /\ reveals' = reveals + 1
               /\ misuse' = (misuse \/ host.disposed)
               /\ threw' = (threw \/ out = "threw")
               /\ lastCall' = Call("show", out, s.early)
    /\ UNCHANGED <<scripts, startHttpServer, panel, host, handlers, loadState, stats,
                   selected, listenerLog, delivered, given, inbox, steps>>

\* show(preserveFocus) after the await: the load has settled.
ShowResume ==
    /\ pendingShows # <<>>
    /\ loadState # "pending"
    /\ LET s == Head(pendingShows) IN
       /\ pendingShows' = Tail(pendingShows)
       /\ IF loadState = "rejected"
          THEN /\ threw' = TRUE
               /\ lastCall' = Call("show", "threw", s.early)
               /\ UNCHANGED <<reveals, misuse>>
          ELSE IF panel = "cleared"
          THEN /\ lastCall' = Call("show", "noop", s.early)
               /\ UNCHANGED <<reveals, misuse, threw>>
          ELSE \E out \in (IF host.disposed THEN DisposedOutcomes ELSE {"revealed"}) :
               /\ reveals' = reveals + 1
               /\ misuse' = (misuse \/ host.disposed)
               /\ threw' = (threw \/ out = "threw")
               /\ lastCall' = Call("show", out, s.early)
    /\ UNCHANGED <<scripts, startHttpServer, panel, host, handlers, loadState, stats,
                   selected, listenerLog, delivered, given, inbox, steps>>

\* Variant: close() does nothing until the load has settled.
CloseAfterLoad ==
    /\ steps < MaxSteps
    /\ steps' = steps + 1
    /\ IF panel = "cleared" \/ loadState = "pending"
       THEN /\ lastCall' = Call("close", "noop", FALSE)
            /\ UNCHANGED <<panel, host, listenerLog, misuse, threw>>
       ELSE IF host.disposed
       THEN \E out \in DisposedOutcomes :
            /\ misuse' = TRUE
            /\ threw' = (threw \/ out = "threw")
            /\ lastCall' = Call("close", out, FALSE)
            /\ UNCHANGED <<panel, host, listenerLog>>
       ELSE /\ DisposeHost
            /\ lastCall' = Call("close", "disposed", FALSE)
            /\ UNCHANGED <<misuse, threw>>
    /\ UNCHANGED <<scripts, startHttpServer, handlers, loadState, stats, selected,
                   pendingShows, delivered, given, inbox, reveals>>

\* ----------------------------------------------------------------- close
Close ==
    /\ steps < MaxSteps
    /\ steps' = steps + 1
    /\ IF panel = "cleared"
       THEN /\ lastCall' = Call("close", "noop", FALSE)
            /\ UNCHANGED <<panel, host, listenerLog, misuse, threw>>
       ELSE IF host.disposed
       THEN \E out \in DisposedOutcomes :
            /\ misuse' = TRUE
            /\ threw' = (threw \/ out = "threw")
            /\ lastCall' = Call("close", out, FALSE)
            /\ UNCHANGED <<panel, host, listenerLog>>
       ELSE /\ DisposeHost
            /\ lastCall' = Call("close", "disposed", FALSE)
            /\ UNCHANGED <<misuse, threw>>
    /\ UNCHANGED <<scripts, startHttpServer, handlers, loadState, stats, selected,
                   pendingShows, delivered, given, inbox, reveals>>

\* ------------------------------------------------------ property access
\* Variant: the accessors read the host panel without testing this.panel.
ReadUnguarded(op, cleared, value) ==
    /\ steps < MaxSteps
    /\ steps' = steps + 1
    /\ IF host.disposed
       THEN \E out \in DisposedOutcomes :
            /\ misuse' = TRUE
            /\ threw' = (threw \/ out = "threw")
            /\ lastCall' = Call(op, IF out = "threw" THEN out ELSE value, FALSE)
       ELSE /\ lastCall' = Call(op, value, FALSE)
            /\ UNCHANGED <<misuse, threw>>
    /\ UNCHANGED <<scripts, startHttpServer, panel, host, handlers, loadState, stats,
                   selected, pendingShows, listenerLog, delivered, given, inbox, reveals>>

\* A read of the host panel: isVisible, isActive, the title getter.
Read(op, cleared, value) ==
    /\ steps < MaxSteps
    /\ steps' = steps + 1
    /\ IF panel = "cleared"
       THEN /\ lastCall' = Call(op, cleared, FALSE)
            /\ UNCHANGED <<misuse, threw>>
       ELSE IF host.disposed
       THEN \E out \in DisposedOutcomes :
            /\ misuse' = TRUE
            /\ threw' = (threw \/ out = "threw")
            /\ lastCall' = Call(op, IF out = "threw" THEN out ELSE value, FALSE)
       ELSE /\ lastCall' = Call(op, value, FALSE)
            /\ UNCHANGED <<misuse, threw>>
    /\ UNCHANGED <<scripts, startHttpServer, panel, host, handlers, loadState, stats,
                   selected, pendingShows, listenerLog, delivered, given, inbox, reveals>>

IsVisible == Read("isVisible", "false", BoolStr(host.visible))

IsActive == Read("isActive", "false", BoolStr(host.active))

GetTitle == Read("title", "", host.title)

SetTitle(newTitle) ==
    /\ steps < MaxSteps
    /\ steps' = steps + 1
    /\ IF panel = "cleared"
       THEN /\ lastCall' = Call("setTitle", "noop", FALSE)
            /\ UNCHANGED <<host, misuse, threw>>
       ELSE IF host.disposed
       THEN \E out \in DisposedOutcomes :
            /\ misuse' = TRUE
            /\ threw' = (threw \/ out = "threw")
            /\ lastCall' = Call("setTitle", out, FALSE)
            /\ UNCHANGED host
       ELSE /\ host' = [host EXCEPT !.title = newTitle]
            /\ lastCall' = Call("setTitle", newTitle, FALSE)
            /\ UNCHANGED <<misuse, threw>>
    /\ UNCHANGED <<scripts, startHttpServer, panel, handlers, loadState, stats, selected,
                   pendingShows, listenerLog, delivered, given, inbox, reveals>>

\* ----------------------------------------------------------- postMessage
PostMessage(message) ==
    /\ steps < MaxSteps
    /\ steps' = steps + 1
    /\ given' = IF host.disposed THEN given ELSE Append(given, message)
    /\ IF panel = "cleared"
       THEN /\ lastCall' = Call("postMessage", "noop", FALSE)
            /\ UNCHANGED <<inbox, misuse, threw>>
       ELSE IF host.disposed
       THEN \E out \in DisposedOutcomes :
            /\ misuse' = TRUE
            /\ threw' = (threw \/ out = "threw")
            /\ lastCall' = Call("postMessage", out, FALSE)
            /\ UNCHANGED inbox
       ELSE /\ inbox' = Append(inbox, message)
            /\ lastCall' = Call("postMessage", "posted", FALSE)
            /\ UNCHANGED <<misuse, threw>>
    /\ UNCHANGED <<scripts, startHttpServer, panel, host, handlers, loadState, stats,
                   selected, pendingShows, listenerLog, delivered, reveals>>

\* ----------------------------------------------------------- host events
\* The user closes the panel: the host disposes it and reports the disposal.
HostDispose ==
    /\ ~host.disposed
    /\ DisposeHost
    /\ UNCHANGED <<scripts, startHttpServer, handlers, loadState, stats, selected,
                   pendingShows, delivered, given, inbox, reveals, lastCall, misuse,
                   threw, steps>>

\* onDidChangeViewState, with the handler of lines 109-112.
HostChangeViewState(visible, active) ==
    /\ ~host.disposed
    /\ steps < MaxSteps
    /\ <<visible, active>> # <<host.visible, host.active>>
    /\ steps' = steps + 1
    /\ host' = [host EXCEPT !.visible = visible, !.active = active]
    /\ listenerLog' = IF handlers
                      THEN Append(listenerLog, OnChangeViewState("host"))
                      ELSE listenerLog
    /\ UNCHANGED <<scripts, startHttpServer, panel, handlers, loadState, stats, selected,
                   pendingShows, delivered, given, inbox, reveals, lastCall, misuse,
                   threw>>

\* Variant: the handler passes payload and type in the wrong order.
WebviewMessageSwapped(message) ==
    /\ ~host.disposed
    /\ host.html \in {"local", "server"}
    /\ steps < MaxSteps
    /\ steps' = steps + 1
    /\ delivered' = Append(delivered, message)
    /\ listenerLog' = IF handlers
                      THEN Append(listenerLog, OnMessage(message.payload, message.type))
                      ELSE listenerLog
    /\ UNCHANGED <<scripts, startHttpServer, panel, host, handlers, loadState, stats,
                   selected, pendingShows, given, inbox, reveals, lastCall, misuse,
                   threw>>

\* webview.onDidReceiveMessage, with the handler of lines 104-107.
WebviewMessage(message) ==
    /\ ~host.disposed
    /\ host.html \in {"local", "server"}
    /\ steps < MaxSteps
    /\ steps' = steps + 1
    /\ delivered' = Append(delivered, message)
    /\ listenerLog' = IF handlers
                      THEN Append(listenerLog, OnMessage(message.type, message.payload))
                      ELSE listenerLog
    /\ UNCHANGED <<scripts, startHttpServer, panel, host, handlers, loadState, stats,
                   selected, pendingShows, given, inbox, reveals, lastCall, misuse,
                   threw>>

\* --------------------------------------------------------- specification
Next ==
    \/ LoadResume
    \/ \E pf \in BOOLEAN : ShowCall(pf)
    \/ ShowResume
    \/ Close
    \/ IsVisible
    \/ IsActive
    \/ GetTitle
    \/ \E t \in Titles : SetTitle(t)
    \/ \E m \in Msgs : PostMessage(m)
    \/ HostDispose
    \/ \E v \in BOOLEAN, a \in BOOLEAN : HostChangeViewState(v, a)
    \/ \E m \in Msgs : WebviewMessage(m)

Spec == Init /\ [][Next]_vars

\* ---------------------------------------------------------------- claims
AnyMissing == \E i \in DOMAIN scripts : scripts[i] = FALSE

RECURSIVE Relayed(_)
\* The <<type, payload>> of the onMessage calls of a listener log, in order.
Relayed(log) ==
    IF log = <<>> THEN <<>>
    ELSE IF Head(log).m = "onMessage"
         THEN <<[type |-> Head(log).type, payload |-> Head(log).payload]>> \o Relayed(Tail(log))
         ELSE Relayed(Tail(log))

RECURSIVE CountCalls(_, _, _)
\* How many calls of method m made from `from` a listener log holds.
CountCalls(log, m, from) ==
    IF log = <<>> THEN 0
    ELSE (IF Head(log).m = m /\ Head(log).from = from THEN 1 ELSE 0)
         + CountCalls(Tail(log), m, from)

LoadPending == loadState = "pending" /\ ~host.disposed

\* C1: panel.reveal is never called before the load started by the constructor
\* has resolved and assigned the panel's HTML, also for a show() issued while
\* the existence check was pending.
C1_RevealAfterLoad ==
    reveals > 0 => (loadState = "resolved" /\ stats.assigns = 1 /\ selected # "none")

\* A show() issued while the load was pending has revealed the live panel.
C1_Witness ==
    lastCall.op = "show" /\ lastCall.early /\ lastCall.ret = "revealed" /\ reveals = 1

\* C2: once the host panel is disposed no operation uses the disposed panel
\* (reveal, dispose, postMessage, a property access, the html write of load)
\* and none throws.
C2_NoOpAfterDisposal ==
    ~misuse /\ ~threw /\ loadState # "rejected"

\* C3: load assigns the error HTML iff at least one declared script is missing,
\* and otherwise the server HTML when startHttpServer is set, the local HTML
\* when it is not; the empty list counts as nothing missing.
C3_ErrorHtmlIffMissing ==
    /\ loadState = "resolved" => stats.assigns = 1
    /\ stats.assigns = 0 => selected = "none" /\ host.html = "none"
    /\ stats.assigns > 0 =>
         /\ (selected = "error") <=> AnyMissing
         /\ ~AnyMissing => selected = (IF startHttpServer THEN "server" ELSE "local")
         /\ host.html \in {"none", selected}
         /\ (~host.disposed => host.html = selected)

\* The error HTML is shown for a list with one script present and one missing.
C3_Witness ==
    /\ host.html = "error"
    /\ \E i \in DOMAIN scripts : scripts[i] = TRUE
    /\ \E i \in DOMAIN scripts : scripts[i] = FALSE

\* C4: whenever the host panel is disposed, listener.dispose has been called
\* exactly once and this.panel is cleared, whatever the moment of disposal.
C4_TeardownOnce ==
    host.disposed =>
        (panel = "cleared" /\ CountCalls(listenerLog, "dispose", "host") = 1)

\* C5: with a script missing no exception reaches a caller, the load resolves,
\* and every show() that has resumed revealed the panel showing the error HTML.
C5_MissingScriptNeverThrows ==
    AnyMissing =>
        /\ ~threw
        /\ loadState # "rejected"
        /\ (lastCall.op = "show" /\ lastCall.ret # "awaiting") =>
               (lastCall.ret = "revealed" /\ host.html = "error")

\* C6: the load is started once, by the constructor; the existence check runs
\* once and the HTML is assigned at most once, however many show() calls there
\* are and whenever they are made.
C6_LoadOnce ==
    /\ stats.loads = 1
    /\ stats.checks <= 1
    /\ stats.assigns <= stats.checks
    /\ (loadState = "pending") <=> (stats.checks = 0)

\* A show() issued before the load resolved has revealed the panel and one
\* issued after it is awaiting the same load, after one check and one assignment.
C6_Witness ==
    /\ lastCall.op = "show" /\ lastCall.early /\ lastCall.ret = "revealed"
    /\ Len(pendingShows) = 1 /\ ~pendingShows[1].early
    /\ stats.checks = 1 /\ stats.assigns = 1

\* C7: while the load is pending and the panel is not disposed, close()
\* disposes the host panel in the same step, postMessage() hands the message
\* to the webview in the same step, and the accessors read and write the host
\* panel's values in the same step.
C7_NoWaitOnLoad ==
    [][ LoadPending =>
          /\ Close => (host'.disposed /\ lastCall'.ret = "disposed")
          /\ \A m \in Msgs : PostMessage(m) => inbox' = Append(inbox, m)
          /\ IsVisible => lastCall'.ret = BoolStr(host.visible)
          /\ IsActive => lastCall'.ret = BoolStr(host.active)
          /\ GetTitle => lastCall'.ret = host.title
          /\ \A t \in Titles : SetTitle(t) => host'.title = t
      ]_vars

\* A message was posted and the panel then closed, both with the load pending.
C7_Witness ==
    /\ loadState = "pending"
    /\ inbox # <<>>
    /\ host.disposed /\ lastCall.op = "close" /\ lastCall.ret = "disposed"

\* C8: the listener's onMessage calls carry exactly the messages the webview
\* delivered, same type and payload, same order, once each; the webview
\* received exactly the messages given to postMessage() on a live panel.
C8_RelayVerbatim ==
    /\ Relayed(listenerLog) = delivered
    /\ inbox = given

\* Two different messages came from the webview and one was posted to it.
C8_Witness ==
    /\ Len(delivered) = 2 /\ delivered[1] # delivered[2]
    /\ Len(given) = 1

\* C9: one host panel is created; once this.panel is cleared it stays cleared,
\* and isVisible(), isActive() and the title getter then return false, false
\* and the empty string.
C9_NeverReused ==
    [][ /\ stats'.panels = 1
        /\ panel = "cleared" => panel' = "cleared"
        /\ (panel = "cleared" /\ IsVisible) => lastCall'.ret = "false"
        /\ (panel = "cleared" /\ IsActive) => lastCall'.ret = "false"
        /\ (panel = "cleared" /\ GetTitle) => lastCall'.ret = ""
      ]_vars

\* The title getter ran on a cleared panel whose host title was changed before.
C9_Witness ==
    panel = "cleared" /\ host.title = "T1" /\ lastCall.op = "title" /\ lastCall.ret = ""

\* C10: the listener is called only after the load found every script and
\* assigned the application HTML: never while the load is pending, never when
\* a script is missing; on a successful load the first call is the initial
\* onChangeViewState, made once, by the time the load resolves.
C10_ListenerOnlyAfterLoad ==
    /\ loadState = "pending" => listenerLog = <<>>
    /\ AnyMissing => listenerLog = <<>>
    /\ listenerLog # <<>> =>
         /\ ~AnyMissing
         /\ stats.assigns = 1 /\ selected \in {"local", "server"}
         /\ listenerLog[1] = OnChangeViewState("load")
    /\ CountCalls(listenerLog, "onChangeViewState", "load") <= 1
    /\ (loadState = "resolved" /\ ~AnyMissing) => listenerLog # <<>>

\* A script is missing, the view state changed and the panel was disposed after
\* the load: the listener was never called.
C10_Witness ==
    /\ AnyMissing /\ loadState = "resolved"
    /\ host.active /\ host.disposed
    /\ listenerLog = <<>>

====
